---- MODULE Spec2Model ----
(***************************************************************************)
(* Model of the blocker crate (src/src/lib.rs): a Blocker ("Guard") that   *)
(* hands out Blockref handles and whose Drop waits on a condition variable *)
(* until ref_count is 0.  One owner thread runs Blocker::new, lets get()   *)
(* be called and finally drops the Blocker; every handle is a thread of    *)
(* its own that runs Blockref::new, dereferences and runs Blockref::drop.  *)
(* Each step that takes or gives up the mutex, reads or writes ref_count,  *)
(* or touches the condition variable is one action.  The Blocker is torn    *)
(* down either in place, when it goes out of scope, or by drop(y), which   *)
(* moves it: Blocker::drop then runs on a copy of ref_count, mutex and     *)
(* cond, while the handles' raw pointers still name the original fields.   *)
(***************************************************************************)
EXTENDS Integers, FiniteSets, Sequences, TLC

\* ---- bounds -------------------------------------------------------------
NumHandles == 2
MaxSpurious == 1

\* ---- program constants --------------------------------------------------
InitVal == 5
MutVal == 6
Owner == 0

Handles == 1..NumHandles

VARIABLES
    data,        \* the shared value the Blocker borrows (Test.x)
    ref_count,   \* Blocker.ref_count
    mutex,       \* set of threads holding Blocker.mutex ({} = free)
    parked,      \* set of threads parked inside Condvar::wait
    opc,         \* position of the owner thread
    pc,          \* position of every handle thread
    tmp,         \* per handle: the value of *ref_count it loaded (0 when dead)
    seen,        \* per handle: the set of values its dereferences returned
    spurious,    \* number of spurious wake-ups so far
    lastWake,    \* why the last waiter left the condition variable
    incs,        \* completed stores of *ref_count += 1
    decs,        \* completed stores of *ref_count -= 1
    signals,     \* calls of notify_one
    dropSnap,    \* what the handles had done when Blocker::drop was entered
    moved,       \* TRUE once drop(y) has moved the Blocker to a new place
    own_count,   \* ref_count of the moved Blocker
    own_mutex,   \* set of threads holding the moved Blocker's mutex
    own_parked   \* set of threads parked on the moved Blocker's cond

\* the fields of the moved Blocker, which only the owner's drop works on
own == <<moved, own_count, own_mutex, own_parked>>

vars == <<data, ref_count, mutex, parked, opc, pc, tmp, seen, spurious,
          lastWake, incs, decs, signals, dropSnap, own>>

\* ---- positions ----------------------------------------------------------
AcqPcs == {"acq_lock", "acq_read", "acq_write", "acq_unlock"}
AcqCS == {"acq_read", "acq_write", "acq_unlock"}
RelCS == {"rel_read", "rel_write", "rel_notify", "rel_unlock"}
RelPcs == {"rel_lock"} \cup RelCS
LivePcs == {"active"} \cup RelPcs

LiveHandles == {h \in Handles : pc[h] \in LivePcs}
CreatedHandles == {h \in Handles : pc[h] \in LivePcs \cup {"released"}}
ReleasedHandles == {h \in Handles : pc[h] = "released"}

\* ---- helpers ------------------------------------------------------------
\* Mutex::lock succeeds only on a free mutex
CanLock(m) == m = {}

\* *ref_count += 1
IncDedup(c) == IF c > 0 THEN c ELSE c + 1
Inc(c) == c + 1

\* *ref_count -= 1
DecReset(c) == 0
DecTwice(c) == c - 2
Dec(c) == c - 1

\* self.ref_count == 0
CountIsZeroOffByOne(c) == c <= 1
CountIsZero(c) == c = 0

\* Condvar::notify_one: the sets of parked threads it can leave behind
NotifyOne(p) == IF p = {} THEN {p} ELSE {p \ {t} : t \in p}

Init ==
    /\ data = InitVal
    /\ ref_count = 0
    /\ mutex = {}
    /\ parked = {}
    /\ opc = "alive"
    /\ pc = [h \in Handles |-> "none"]
    /\ tmp = [h \in Handles |-> 0]
    /\ seen = [h \in Handles |-> {}]
    /\ spurious = 0
    /\ lastWake = "none"
    /\ incs = 0
    /\ decs = 0
    /\ signals = 0
    /\ dropSnap = [n |-> 0, m |-> 0, mid |-> 0]
    /\ moved = FALSE
    /\ own_count = 0
    /\ own_mutex = {}
    /\ own_parked = {}

\* ---- Blocker::get / Blockref::new ----------------------------------------
GetCall(h) ==
    /\ opc = "alive"
    /\ pc[h] = "none"
    /\ pc' = [pc EXCEPT ![h] = "acq_lock"]
    /\ UNCHANGED <<data, ref_count, mutex, parked, opc, tmp, seen, spurious,
                   lastWake, incs, decs, signals, dropSnap, own>>

AcqLock(h) ==
    /\ pc[h] = "acq_lock"
    /\ CanLock(mutex)
    /\ mutex' = mutex \cup {h}
    /\ pc' = [pc EXCEPT ![h] = "acq_read"]
    /\ UNCHANGED <<data, ref_count, parked, opc, tmp, seen, spurious,
                   lastWake, incs, decs, signals, dropSnap, own>>

AcqRead(h) ==
    /\ pc[h] = "acq_read"
    /\ tmp' = [tmp EXCEPT ![h] = ref_count]
    /\ pc' = [pc EXCEPT ![h] = "acq_write"]
    /\ UNCHANGED <<data, ref_count, mutex, parked, opc, seen, spurious,
                   lastWake, incs, decs, signals, dropSnap, own>>

AcqWrite(h) ==
    /\ pc[h] = "acq_write"
    /\ ref_count' = Inc(tmp[h])
    /\ tmp' = [tmp EXCEPT ![h] = 0]
    /\ incs' = incs + 1
    /\ pc' = [pc EXCEPT ![h] = "acq_unlock"]
    /\ UNCHANGED <<data, mutex, parked, opc, seen, spurious,
                   lastWake, decs, signals, dropSnap, own>>

AcqUnlockNotify(h) ==
    /\ pc[h] = "acq_unlock"
    /\ mutex' = mutex \ {h}
    /\ parked' \in NotifyOne(parked)
    /\ signals' = signals + 1
    /\ pc' = [pc EXCEPT ![h] = "active"]
    /\ UNCHANGED <<data, ref_count, opc, tmp, seen, spurious,
                   lastWake, incs, decs, dropSnap, own>>

AcqUnlock(h) ==
    /\ pc[h] = "acq_unlock"
    /\ mutex' = mutex \ {h}
    /\ pc' = [pc EXCEPT ![h] = "active"]
    /\ UNCHANGED <<data, ref_count, parked, opc, tmp, seen, spurious,
                   lastWake, incs, decs, signals, dropSnap, own>>

\* ---- Blockref::deref ----------------------------------------------------
DerefBump(h) ==
    /\ pc[h] = "active"
    /\ seen' = [seen EXCEPT ![h] = @ \cup {data}]
    /\ ref_count' = ref_count + 1
    /\ UNCHANGED <<data, mutex, parked, opc, pc, tmp, spurious,
                   lastWake, incs, decs, signals, dropSnap, own>>

Deref(h) ==
    /\ pc[h] = "active"
    /\ seen' = [seen EXCEPT ![h] = @ \cup {data}]
    /\ UNCHANGED <<data, ref_count, mutex, parked, opc, pc, tmp, spurious,
                   lastWake, incs, decs, signals, dropSnap, own>>

\* ---- Blockref::drop -----------------------------------------------------
DropCall(h) ==
    /\ pc[h] = "active"
    /\ pc' = [pc EXCEPT ![h] = "rel_lock"]
    /\ UNCHANGED <<data, ref_count, mutex, parked, opc, tmp, seen, spurious,
                   lastWake, incs, decs, signals, dropSnap, own>>

RelLock(h) ==
    /\ pc[h] = "rel_lock"
    /\ CanLock(mutex)
    /\ mutex' = mutex \cup {h}
    /\ pc' = [pc EXCEPT ![h] = "rel_read"]
    /\ UNCHANGED <<data, ref_count, parked, opc, tmp, seen, spurious,
                   lastWake, incs, decs, signals, dropSnap, own>>

RelRead(h) ==
    /\ pc[h] = "rel_read"
    /\ tmp' = [tmp EXCEPT ![h] = ref_count]
    /\ pc' = [pc EXCEPT ![h] = "rel_write"]
    /\ UNCHANGED <<data, ref_count, mutex, parked, opc, seen, spurious,
                   lastWake, incs, decs, signals, dropSnap, own>>

RelWrite(h) ==
    /\ pc[h] = "rel_write"
    /\ ref_count' = Dec(tmp[h])
    /\ tmp' = [tmp EXCEPT ![h] = 0]
    /\ decs' = decs + 1
    /\ pc' = [pc EXCEPT ![h] = "rel_notify"]
    /\ UNCHANGED <<data, mutex, parked, opc, seen, spurious,
                   lastWake, incs, signals, dropSnap, own>>

RelNotify(h) ==
    /\ pc[h] = "rel_notify"
    /\ parked' \in NotifyOne(parked)
    /\ lastWake' = IF parked' # parked THEN "notify" ELSE lastWake
    /\ signals' = signals + 1
    /\ pc' = [pc EXCEPT ![h] = "rel_unlock"]
    /\ UNCHANGED <<data, ref_count, mutex, opc, tmp, seen, spurious,
                   incs, decs, dropSnap, own>>

RelUnlock(h) ==
    /\ pc[h] = "rel_unlock"
    /\ mutex' = mutex \ {h}
    /\ pc' = [pc EXCEPT ![h] = "released"]
    /\ UNCHANGED <<data, ref_count, parked, opc, tmp, seen, spurious,
                   lastWake, incs, decs, signals, dropSnap, own>>

\* ---- Blocker::drop ------------------------------------------------------
\* the fields Blocker::drop(&mut self) works on: those of the Blocker where
\* it lives now
OMutex == IF moved THEN own_mutex ELSE mutex
OCount == IF moved THEN own_count ELSE ref_count
OParked == IF moved THEN own_parked ELSE parked

\* the Blocker goes out of scope and is dropped in place.
\* drop takes the Blocker by &mut: no get(&self) can still be running
StartDrop ==
    /\ opc = "alive"
    /\ \A h \in Handles : pc[h] \notin AcqPcs
    /\ opc' = "lock"
    /\ dropSnap' = [n |-> Cardinality(CreatedHandles),
                    m |-> Cardinality(ReleasedHandles),
                    mid |-> Cardinality({h \in Handles : pc[h] \in RelPcs})]
    /\ UNCHANGED <<data, ref_count, mutex, parked, pc, tmp, seen, spurious,
                   lastWake, incs, decs, signals, own>>

\* drop(y): the Blocker is moved into mem::drop, field by field as the bytes
\* are at that moment (a mutex a handle holds stays locked in the copy, which
\* nobody unlocks); the handles keep pointing at the fields left behind
StartDropMoved ==
    /\ opc = "alive"
    /\ \A h \in Handles : pc[h] \notin AcqPcs
    /\ opc' = "lock"
    /\ dropSnap' = [n |-> Cardinality(CreatedHandles),
                    m |-> Cardinality(ReleasedHandles),
                    mid |-> Cardinality({h \in Handles : pc[h] \in RelPcs})]
    /\ moved' = TRUE
    /\ own_count' = ref_count
    /\ own_mutex' = mutex
    /\ own_parked' = {}
    /\ UNCHANGED <<data, ref_count, mutex, parked, pc, tmp, seen, spurious,
                   lastWake, incs, decs, signals>>

OwnerLock ==
    /\ opc = "lock"
    /\ CanLock(OMutex)
    /\ IF moved
          THEN own_mutex' = own_mutex \cup {Owner} /\ UNCHANGED mutex
          ELSE mutex' = mutex \cup {Owner} /\ UNCHANGED own_mutex
    /\ opc' = "loop"
    /\ UNCHANGED <<data, ref_count, parked, pc, tmp, seen, spurious, lastWake,
                   incs, decs, signals, dropSnap, moved, own_count, own_parked>>

\* cond.wait(lock): gives up the mutex and parks, atomically
Wait ==
    /\ opc = "loop"
    /\ IF moved
          THEN /\ own_mutex' = own_mutex \ {Owner}
               /\ own_parked' = own_parked \cup {Owner}
               /\ UNCHANGED <<mutex, parked>>
          ELSE /\ mutex' = mutex \ {Owner}
               /\ parked' = parked \cup {Owner}
               /\ UNCHANGED <<own_mutex, own_parked>>
    /\ opc' = "wait"
    /\ UNCHANGED <<data, ref_count, pc, tmp, seen, spurious, lastWake,
                   incs, decs, signals, dropSnap, moved, own_count>>

\* a condition variable may wake a waiter that nobody notified
SpuriousWake ==
    /\ spurious < MaxSpurious
    /\ \/ /\ \E t \in parked : parked' = parked \ {t}
          /\ UNCHANGED own_parked
       \/ /\ \E t \in own_parked : own_parked' = own_parked \ {t}
          /\ UNCHANGED parked
    /\ spurious' = spurious + 1
    /\ lastWake' = "spurious"
    /\ UNCHANGED <<data, ref_count, mutex, opc, pc, tmp, seen, incs, decs,
                   signals, dropSnap, moved, own_count, own_mutex>>

\* cond.wait returns only after it has taken the mutex again
ReacquireNoLock ==
    /\ opc = "wait"
    /\ Owner \notin OParked
    /\ IF moved
          THEN own_mutex' = own_mutex \cup {Owner} /\ UNCHANGED mutex
          ELSE mutex' = mutex \cup {Owner} /\ UNCHANGED own_mutex
    /\ opc' = "check"
    /\ UNCHANGED <<data, ref_count, parked, pc, tmp, seen, spurious, lastWake,
                   incs, decs, signals, dropSnap, moved, own_count, own_parked>>

Reacquire ==
    /\ opc = "wait"
    /\ Owner \notin OParked
    /\ CanLock(OMutex)
    /\ IF moved
          THEN own_mutex' = own_mutex \cup {Owner} /\ UNCHANGED mutex
          ELSE mutex' = mutex \cup {Owner} /\ UNCHANGED own_mutex
    /\ opc' = "check"
    /\ UNCHANGED <<data, ref_count, parked, pc, tmp, seen, spurious, lastWake,
                   incs, decs, signals, dropSnap, moved, own_count, own_parked>>

CheckAlwaysBreak ==
    /\ opc = "check"
    /\ opc' = "break"
    /\ UNCHANGED <<data, ref_count, mutex, parked, pc, tmp, seen, spurious,
                   lastWake, incs, decs, signals, dropSnap, own>>

\* self.ref_count is the field of the Blocker being dropped
Check ==
    /\ opc = "check"
    /\ opc' = IF CountIsZero(OCount) THEN "break" ELSE "loop"
    /\ UNCHANGED <<data, ref_count, mutex, parked, pc, tmp, seen, spurious,
                   lastWake, incs, decs, signals, dropSnap, own>>

\* end of drop: the MutexGuard goes out of scope
Exit ==
    /\ opc = "break"
    /\ IF moved
          THEN own_mutex' = own_mutex \ {Owner} /\ UNCHANGED mutex
          ELSE mutex' = mutex \ {Owner} /\ UNCHANGED own_mutex
    /\ opc' = "done"
    /\ UNCHANGED <<data, ref_count, parked, pc, tmp, seen, spurious, lastWake,
                   incs, decs, signals, dropSnap, moved, own_count, own_parked>>

\* ---- the owner's own code after the Blocker is gone (x.x = 6) -------------
OwnerMutate ==
    /\ opc = "done"
    /\ data = InitVal
    /\ data' = MutVal
    /\ UNCHANGED <<ref_count, mutex, parked, opc, pc, tmp, seen, spurious,
                   lastWake, incs, decs, signals, dropSnap, own>>

HandleStep(h) ==
    \/ AcqLock(h) \/ AcqRead(h) \/ AcqWrite(h) \/ AcqUnlock(h)
    \/ RelLock(h) \/ RelRead(h) \/ RelWrite(h) \/ RelNotify(h) \/ RelUnlock(h)

OwnerStep == OwnerLock \/ Wait \/ Reacquire \/ Check \/ Exit

Next ==
    \/ \E h \in Handles : GetCall(h)
    \/ \E h \in Handles : AcqLock(h)
    \/ \E h \in Handles : AcqRead(h)
    \/ \E h \in Handles : AcqWrite(h)
    \/ \E h \in Handles : AcqUnlock(h)
    \/ \E h \in Handles : Deref(h)
    \/ \E h \in Handles : DropCall(h)
    \/ \E h \in Handles : RelLock(h)
    \/ \E h \in Handles : RelRead(h)
    \/ \E h \in Handles : RelWrite(h)
    \/ \E h \in Handles : RelNotify(h)
    \/ \E h \in Handles : RelUnlock(h)
    \/ StartDrop
    \/ StartDropMoved
    \/ OwnerLock
    \/ Wait
    \/ SpuriousWake
    \/ Reacquire
    \/ Check
    \/ Exit
    \/ OwnerMutate

Spec == Init /\ [][Next]_vars

\* Fair scheduling: a thread that can take a step of the primitive's code
\* eventually takes it, and every live handle is eventually dropped.
\* Nothing obliges the owner to drop the Blocker, a get() to be called, a
\* handle to be dereferenced or a spurious wake-up to happen.
FairSpec ==
    /\ Spec
    /\ WF_vars(OwnerStep)
    /\ \A h \in Handles : WF_vars(HandleStep(h))
    /\ \A h \in Handles : WF_vars(DropCall(h))

\* Fair scheduling alone: a thread that can take a step of the primitive's
\* code eventually takes it; callers are obliged to nothing.
SchedSpec ==
    /\ Spec
    /\ WF_vars(OwnerStep)
    /\ \A h \in Handles : WF_vars(HandleStep(h))

OwnerParked == opc = "wait" /\ Owner \in OParked

\* =========================================================================
\* Properties
\* =========================================================================

\* C1: whenever teardown (Blocker::drop) has completed, no Handle obtained
\* from the Guard is still unreleased and ref_count is 0, in every
\* interleaving of releases and with spurious wake-ups.
C1_TeardownAfterAllReleased ==
    opc = "done" =>
        /\ LiveHandles = {}
        /\ \A h \in Handles : pc[h] \in {"none", "released"}
        /\ ref_count = 0

\* teardown started with live handles, was woken spuriously, and completed
C1_Witness ==
    /\ opc = "done"
    /\ dropSnap.n - dropSnap.m > 0
    /\ spurious > 0
    /\ ReleasedHandles = CreatedHandles

\* C2 (as claimed): after N get() calls and M <= N releases, all completed
\* before teardown starts, teardown blocks if and only if N - M > 0; so
\* teardown is never parked on the condition variable when N - M = 0.
C2_BlocksIffLive ==
    (opc # "alive" /\ dropSnap.mid = 0 /\ OwnerParked)
        => dropSnap.n - dropSnap.m > 0

\* C3 (as claimed): a Guard from which get() was never called does not park
\* on the condition variable when it is torn down (no spurious wake-up).
C3_NoHandleNoPark ==
    ((\A h \in Handles : pc[h] = "none") /\ spurious = 0) => ~OwnerParked

\* C4 (as claimed): if teardown is parked on the condition variable while at
\* least one Handle is live, and every Handle is then released, teardown
\* eventually completes (checked under FairSpec).
C4_ParkedThenReleasedCompletes ==
    (OwnerParked /\ LiveHandles # {}) ~> (opc = "done")

\* C5: every dereference by a Handle returns the value as it was at Guard
\* construction, and the owner's post-teardown mutation only happens once
\* every Handle has been released.
C5_ReadsSeeOriginal ==
    /\ \A h \in Handles : seen[h] \subseteq {InitVal}
    /\ data # InitVal => \A h \in Handles : pc[h] \in {"none", "released"}

\* the owner has mutated the value after handles read it
C5_Witness ==
    /\ data = MutVal
    /\ CreatedHandles = Handles
    /\ \A h \in Handles : seen[h] = {InitVal}

\* C6: whenever no handle thread is inside the acquire or release critical
\* section (mutex free or held by teardown only), ref_count is the number of
\* Handles created and not yet released; each get() raises it by exactly 1.
C6_CountIsLive ==
    /\ [](mutex \subseteq {Owner} => ref_count = Cardinality(LiveHandles))
    /\ [][\A h \in Handles : AcqWrite(h) => ref_count' = ref_count + 1]_vars

\* two handles are live at once and both are counted
C6_Witness ==
    /\ mutex = {}
    /\ Cardinality(LiveHandles) >= 2
    /\ ref_count >= 2

\* C7 (as claimed): ref_count is read and written only by the thread holding
\* the mutex; acquires, releases and the teardown's check of ref_count
\* exclude one another (at most one thread is between its lock and its
\* unlock), and no increment or decrement is lost: the count is the number
\* of increments minus the number of decrements.
C7_CountUnderMutex ==
    /\ \A h \in Handles : pc[h] \in AcqCS \cup RelCS => mutex = {h}
    /\ opc \in {"loop", "check", "break"} => OMutex = {Owner}
    /\ Cardinality(mutex) <= 1
    /\ Cardinality({h \in Handles : pc[h] \in AcqCS \cup RelCS})
         + (IF opc \in {"loop", "check", "break"} THEN 1 ELSE 0) <= 1
    /\ ref_count = incs - decs

\* C8: only the owner's own code after teardown changes the shared value;
\* no operation of the primitive does, and a dereference leaves ref_count,
\* the mutex and the condition variable unchanged.
C8_Frame ==
    [][ /\ data' # data => OwnerMutate
        /\ \A h \in Handles :
              Deref(h) => UNCHANGED <<ref_count, mutex, parked, data>>
      ]_vars

\* a handle has been dereferenced while the count is up
C8_Witness ==
    \E h \in Handles : pc[h] = "active" /\ seen[h] # {} /\ ref_count > 0

\* C9: teardown checks ref_count after every wake, and a check that finds
\* ref_count > 0 sends it back to wait; it leaves the loop only on 0.
C9_RecheckAfterWake ==
    /\ [][ /\ opc = "wait" => opc' \in {"wait", "check"}
           /\ (opc = "check" /\ OCount > 0) => opc' \in {"check", "loop"}
         ]_vars
    /\ [](opc = "break" => OCount = 0)

\* a spurious wake found ref_count > 0 and teardown is about to wait again
C9_Witness ==
    /\ opc = "loop"
    /\ lastWake = "spurious"
    /\ OCount > 0

\* C10: when teardown has seen ref_count = 0 and left its loop, no Handle is
\* inside its release: every created Handle has finished it.
C10_NoHalfReleased ==
    opc = "break" =>
        \A h \in Handles :
            /\ pc[h] \notin RelCS
            /\ h \in CreatedHandles => pc[h] = "released"

\* teardown leaves the loop after a release's notify woke it
C10_Witness ==
    /\ opc = "break"
    /\ lastWake = "notify"
    /\ decs >= 1

\* C11: every Handle is acquired once, then active, then released once: its
\* release stores one decrement, after its own increment; Released is
\* terminal; a Handle is dereferenced only while active; ref_count >= 0.
C11_HandleLifecycle ==
    /\ [](/\ ref_count >= 0
          /\ incs = Cardinality({h \in Handles :
                        pc[h] \in {"acq_unlock", "released"} \cup LivePcs})
          /\ decs = Cardinality({h \in Handles :
                        pc[h] \in {"rel_notify", "rel_unlock", "released"}}))
    /\ [][\A h \in Handles :
            /\ pc[h] = "released" => pc'[h] = "released"
            /\ pc'[h] = "released" => pc[h] \in {"rel_unlock", "released"}
            /\ pc'[h] = "active" => pc[h] \in {"acq_unlock", "active"}
            /\ seen'[h] # seen[h] => pc[h] = "active"
            /\ RelWrite(h) => (ref_count > 0 /\ ref_count' = ref_count - 1)
         ]_vars

\* every handle was acquired, dereferenced and released
C11_Witness ==
    /\ ReleasedHandles = Handles
    /\ \A h \in Handles : seen[h] # {}
    /\ decs = NumHandles
    /\ ref_count = 0

\* C12 (as claimed): the total number of notify_one calls always equals the
\* number of completed releases.
C12_SignalsEqualCompleted ==
    signals = Cardinality(ReleasedHandles)

\* C12 (amended): notify_one is called once per release, by RelNotify only,
\* with the mutex held and after the decrement; the number of signals is the
\* number of releases that are past their notify, which is the number of
\* completed releases whenever no release is between notify and unlock.
C12_SignalPerRelease ==
    /\ [](/\ signals = Cardinality({h \in Handles :
                           pc[h] \in {"rel_unlock", "released"}})
          /\ (\A h \in Handles : pc[h] # "rel_unlock")
                => signals = Cardinality(ReleasedHandles))
    /\ [][ /\ signals' \in {signals, signals + 1}
           /\ signals' # signals =>
                \E h \in Handles : /\ pc[h] = "rel_notify"
                                   /\ pc'[h] = "rel_unlock"
                                   /\ mutex = {h}
                                   /\ ref_count = incs - decs
                                   /\ decs > signals
         ]_vars

\* all handles released after teardown was woken by one of the signals
C12_Witness ==
    /\ ReleasedHandles = Handles
    /\ signals = NumHandles
    /\ lastWake = "notify"

\* C13 (as claimed): the teardown's wait on the condition variable is the
\* only point at which a thread can stay suspended: under fair scheduling
\* every get() and every release that has started completes, a teardown
\* that has started gets past its Mutex::lock, and the parked teardown does
\* not hold the mutex (checked under SchedSpec).
C13_OnlyCondvarSuspends ==
    /\ \A h \in Handles : (pc[h] \in AcqPcs) ~> (pc[h] = "active")
    /\ \A h \in Handles : (pc[h] \in RelPcs) ~> (pc[h] = "released")
    /\ (opc = "lock") ~> (opc # "lock")
    /\ [](opc = "wait" => Owner \notin mutex \cup own_mutex)

\* C14 (as claimed): at most one thread is parked on the condition variable
\* and it is the teardown thread; a notify_one sent by a release while
\* teardown is parked wakes the teardown.
C14_SingleWaiter ==
    /\ [](/\ parked \cup own_parked \subseteq {Owner}
          /\ (parked \cup own_parked # {} => opc = "wait"))
    /\ [][\A h \in Handles :
            (RelNotify(h) /\ OwnerParked) => ~OwnerParked'
         ]_vars

====
